---- MODULE Spec2Model ----
(***************************************************************************)
(* GrafanaApi (grafanatesting/grafanaapi/grafanaapi.py): a stateless       *)
(* client of the Grafana dashboard REST API.                               *)
(*                                                                         *)
(* Text that the code only compares (titles, panel types, slugs) is a TLA+ *)
(* string.  Text that the code searches, replaces or splits (metric        *)
(* targets, the three substitution arguments, dashboard uris) is a         *)
(* sequence of atoms: every delimiter character the code looks for is an   *)
(* atom of its own ("$", ".", ",", " ", "(", ")", "{", "}", "/", "_") and  *)
(* every other atom is a word that holds none of these characters and      *)
(* whose first letter starts no other word ("tendrl", "cluster_id",        *)
(* "volume_name", "host_name", "a", "b", "db").  The concatenation of the  *)
(* atoms is the Python string, and a find, replace or split of the Python  *)
(* string acts at atom boundaries exactly as the operators below do.       *)
(*                                                                         *)
(* A JSON object is a function from key names to values; a key the code    *)
(* tests for ("title", "hide", "targetFull", "displayName") may be absent  *)
(* from its domain, a key the code reads unguarded is always there.        *)
(***************************************************************************)
EXTENDS Integers, Sequences, FiniteSets, TLC

VARIABLES op, args, requests, response, result, logs, checks

vars == <<op, args, requests, response, result, logs, checks>>

\* ------------------------------------------------------------------ bounds
\* pieces a generated target is concatenated from
MaxPieces == 3
\* targets of a generated multi-target panel
MaxTargets == 2
\* rows of a generated dashboard
MaxRows == 2
\* panels of a generated dashboard, all rows together
MaxPanels == 2
\* entries of a generated search response
MaxEntries == 3

\* ------------------------------------------------------- Python primitives
\* Python's None (panel_type=None, dict.get of a missing key)
None == "<None>"

\* truth value of a str-or-None held as a string (if panel_type:)
Truthy(x) == x # None /\ x # ""

\* truth value of a str-or-None held as atoms (if target.get("targetFull"):)
TruthyText(x) == x # None /\ x # <<>>

\* dict.get(key)
Get(d, key) == IF key \in DOMAIN d THEN d[key] ELSE None

SeqsUpTo(S, n) == UNION {[1..k -> S] : k \in 0..n}

RECURSIVE Flatten(_)
Flatten(ss) == IF ss = <<>> THEN <<>> ELSE Head(ss) \o Flatten(Tail(ss))

\* the pattern p stands in s at index i
MatchAt(s, p, i) ==
    /\ i >= 1
    /\ i + Len(p) - 1 <= Len(s)
    /\ \A k \in 1..Len(p) : s[i + k - 1] = p[k]

\* p in s
Contains(s, p) == \E i \in 1..Len(s) : MatchAt(s, p, i)

\* s.startswith(p)
StartsWith(s, p) == MatchAt(s, p, 1)

\* s.find(p) + 1: the first index where p stands, 0 when there is none
RECURSIVE FindFrom(_, _, _)
FindFrom(s, p, i) ==
    IF i + Len(p) - 1 > Len(s) THEN 0
    ELSE IF MatchAt(s, p, i) THEN i
    ELSE FindFrom(s, p, i + 1)

Find(s, p) == FindFrom(s, p, 1)

\* s.rfind(p) + 1
RECURSIVE RFindFrom(_, _, _)
RFindFrom(s, p, i) ==
    IF i < 1 THEN 0
    ELSE IF MatchAt(s, p, i) THEN i
    ELSE RFindFrom(s, p, i - 1)

RFind(s, p) == RFindFrom(s, p, Len(s) - Len(p) + 1)

\* s.replace(old, new): leftmost non-overlapping occurrences, one pass
RECURSIVE Replace(_, _, _)
Replace(s, old, new) ==
    LET i == Find(s, old)
    IN  IF i = 0
        THEN s
        ELSE SubSeq(s, 1, i - 1) \o new
                \o Replace(SubSeq(s, i + Len(old), Len(s)), old, new)

\* s.split(sep)
RECURSIVE Split(_, _)
Split(s, sep) ==
    LET i == Find(s, sep)
    IN  IF i = 0
        THEN <<s>>
        ELSE <<SubSeq(s, 1, i - 1)>>
                \o Split(SubSeq(s, i + Len(sep), Len(s)), sep)

\* s.split(sep, 1)
SplitOnce(s, sep) ==
    LET i == Find(s, sep)
    IN  IF i = 0
        THEN <<s>>
        ELSE <<SubSeq(s, 1, i - 1), SubSeq(s, i + Len(sep), Len(s))>>

\* s.rsplit(sep, 1)
RSplitOnce(s, sep) ==
    LET i == RFind(s, sep)
    IN  IF i = 0
        THEN <<s>>
        ELSE <<SubSeq(s, 1, i - 1), SubSeq(s, i + Len(sep), Len(s))>>

\* --------------------------------------------------------------- literals
CLUSTER_ID == <<"$", "cluster_id">>
VOLUME_NAME == <<"$", "volume_name">>
HOST_NAME == <<"$", "host_name">>
TENDRL == <<"tendrl", ".">>
Placeholders == {CLUSTER_ID, VOLUME_NAME, HOST_NAME}

\* ------------------------------------------------- get_panel_chart_targets
\* CollectTargets without the test of "hide" (line 105)
RECURSIVE CollectTargets_with_hidden(_)
CollectTargets_with_hidden(ts) ==
    IF ts = <<>>
    THEN <<>>
    ELSE LET target == Head(ts)
         IN  (IF TruthyText(Get(target, "targetFull"))
              THEN <<target["targetFull"]>>
              ELSE <<target["target"]>>)
             \o CollectTargets_with_hidden(Tail(ts))

\* CollectTargets taking "target" whenever it is non-empty (lines 106-109)
RECURSIVE CollectTargets_target_first(_)
CollectTargets_target_first(ts) ==
    IF ts = <<>>
    THEN <<>>
    ELSE LET target == Head(ts)
         IN  (IF "hide" \notin DOMAIN target \/ ~target["hide"]
              THEN IF TruthyText(target["target"])
                      \/ ~TruthyText(Get(target, "targetFull"))
                   THEN <<target["target"]>>
                   ELSE <<target["targetFull"]>>
              ELSE <<>>)
             \o CollectTargets_target_first(Tail(ts))

\* lines 103-109: the texts of the visible targets
RECURSIVE CollectTargets(_)
CollectTargets(ts) ==
    IF ts = <<>>
    THEN <<>>
    ELSE LET target == Head(ts)
         IN  (IF "hide" \notin DOMAIN target \/ ~target["hide"]
              THEN IF TruthyText(Get(target, "targetFull"))
                   THEN <<target["targetFull"]>>
                   ELSE <<target["target"]>>
              ELSE <<>>)
             \o CollectTargets(Tail(ts))

\* Substitute putting host_name in as it is, dots included (line 127)
Substitute_raw_host(target, host_name, cluster_identifier, volume_name) ==
    LET t1 == Replace(target, CLUSTER_ID, cluster_identifier)
        t2 == Replace(t1, VOLUME_NAME, volume_name)
        t3 == Replace(t2, HOST_NAME, host_name)
    IN  [text |-> t3, logs |-> <<>>]

\* lines 112-127: the substitutions of one target and what they log
Substitute(target, host_name, cluster_identifier, volume_name) ==
    LET hasC == Contains(target, CLUSTER_ID)
        t1   == IF hasC THEN Replace(target, CLUSTER_ID, cluster_identifier)
                ELSE target
        logC == IF hasC /\ ~TruthyText(cluster_identifier)
                THEN <<[msg |-> "$cluster_id in target but no cluster_id provided",
                        target |-> target]>>
                ELSE <<>>
        hasV == Contains(t1, VOLUME_NAME)
        t2   == IF hasV THEN Replace(t1, VOLUME_NAME, volume_name) ELSE t1
        logV == IF hasV /\ ~TruthyText(cluster_identifier)
                THEN <<[msg |-> "$volume_name in target but no volume_name provided",
                        target |-> t1]>>
                ELSE <<>>
        t3   == IF Contains(t2, HOST_NAME)
                THEN Replace(t2, HOST_NAME, Replace(host_name, <<".">>, <<"_">>))
                ELSE t2
    IN  [text |-> t3, logs |-> logC \o logV]

\* lines 133-136: the text after the last "(" and before the first ")"
StripCall(t) ==
    LET r  == RSplitOnce(t, <<"(">>)
        t1 == IF Len(r) > 1 THEN r[2] ELSE t
    IN  SplitOnce(t1, <<")">>)[1]

\* ConstructTargets keeping what follows the option, "}" included (line 145)
RECURSIVE ConstructTargets_keeping_brace(_, _)
ConstructTargets_keeping_brace(root, options) ==
    IF options = <<>>
    THEN <<>>
    ELSE <<root \o <<".">> \o Head(options)>>
            \o ConstructTargets_keeping_brace(root, Tail(options))

\* lines 144-146: root.option for every option of the group
RECURSIVE ConstructTargets(_, _)
ConstructTargets(root, options) ==
    IF options = <<>>
    THEN <<>>
    ELSE <<root \o <<".">> \o SplitOnce(Head(options), <<"}">>)[1]>>
            \o ConstructTargets(root, Tail(options))

\* KeepsLabel keeping every segment (line 150)
KeepsLabel_always(t) == TRUE

\* line 150: t.startswith("tendrl.")
KeepsLabel(t) == StartsWith(t, TENDRL)

\* lines 132-151: what one ", "-separated segment adds to target_output
ParseSegment(seg) ==
    LET t0 == StripCall(seg)
        r  == RSplitOnce(t0, <<".", "{">>)
        t  == IF Len(r) = 2 THEN r[1] ELSE t0
        target_options == IF Len(r) = 2 THEN r[2] ELSE None
    IN  IF TruthyText(target_options)
        THEN ConstructTargets(t, Split(target_options, <<",">>))
        ELSE IF KeepsLabel(t) THEN <<t>> ELSE <<>>

RECURSIVE ParseSegments(_)
ParseSegments(segs) ==
    IF segs = <<>> THEN <<>>
    ELSE ParseSegment(Head(segs)) \o ParseSegments(Tail(segs))

\* lines 128-152: target_output of one substituted target
TargetOutput(text) == ParseSegments(Split(text, <<",", " ">>))

\* lines 86-155
get_panel_chart_targets(panel, host_name, cluster_identifier, volume_name) ==
    LET targets == CollectTargets(panel["targets"])
        subs == [i \in 1..Len(targets) |->
                    Substitute(targets[i], host_name, cluster_identifier,
                               volume_name)]
    IN  [output |-> [i \in 1..Len(targets) |-> TargetOutput(subs[i].text)],
         logs   |-> Flatten([i \in 1..Len(targets) |-> subs[i].logs])]

\* ----------------------------------------------------------- get_dashboards
\* Slug taking the first segment (line 36)
Slug_first_segment(uri) ==
    [kind |-> "return", value |-> Split(uri, <<"/">>)[1]]

\* line 36: dashboard["uri"].split("/")[1]; IndexError without a "/"
Slug(uri) ==
    LET parts == Split(uri, <<"/">>)
    IN  IF Len(parts) >= 2
        THEN [kind |-> "return", value |-> parts[2]]
        ELSE [kind |-> "IndexError"]

\* line 37: if dashboard["type"] == "dash-db"
IsDashDb(dashboard) == dashboard["type"] = "dash-db"

\* lines 35-37: the list comprehension, left to right
RECURSIVE SlugList(_)
SlugList(entries) ==
    IF entries = <<>>
    THEN [kind |-> "return", value |-> <<>>]
    ELSE IF ~IsDashDb(Head(entries))
    THEN SlugList(Tail(entries))
    ELSE LET s == Slug(Head(entries)["uri"])
             r == SlugList(Tail(entries))
         IN  IF s.kind # "return" THEN s
             ELSE IF r.kind # "return" THEN r
             ELSE [kind |-> "return", value |-> <<s.value>> \o r.value]

\* lines 26-37
get_dashboards(body) ==
    [requests |-> << <<"search">> >>, result |-> SlugList(body)]

\* ------------------------------------------------------------ get_dashboard
\* get_dashboard answering without a request (lines 50-51)
get_dashboard_no_request(slug, body) == [requests |-> <<>>, json |-> body]

\* lines 39-53: one GET of dashboards/db/<slug>, the body is returned as it is
get_dashboard(slug, body) ==
    [requests |-> << <<"dashboards/db/", slug>> >>, json |-> body]

\* ---------------------------------------------------------------- get_panel
\* lines 67-70
FoundRows(dashboard_rows, row_title) ==
    LET Test(row) == "title" \in DOMAIN row /\ row["title"] = row_title
    IN  SelectSeq(dashboard_rows, Test)

\* FoundPanels never comparing the type (lines 73-77)
FoundPanels_any_type(panels, panel_title, panel_type) ==
    LET AnyType(panel) ==
            /\ "title" \in DOMAIN panel
            /\ panel["title"] = panel_title
    IN  SelectSeq(panels, AnyType)

\* lines 73-82
FoundPanels(panels, panel_title, panel_type) ==
    LET WithType(panel) ==
            /\ "title" \in DOMAIN panel
            /\ panel["title"] = panel_title
            /\ panel["type"] = panel_type
        AnyType(panel) ==
            /\ "title" \in DOMAIN panel
            /\ panel["title"] = panel_title
    IN  IF Truthy(panel_type)
        THEN SelectSeq(panels, WithType)
        ELSE SelectSeq(panels, AnyType)

\* lines 55-84
get_panel(panel_title, row_title, dashboard, panel_type, body) ==
    LET got    == get_dashboard(dashboard, body)
        layout == got.json
        found_rows == FoundRows(layout["dashboard"]["rows"], row_title)
        found_panels ==
            FoundPanels(found_rows[1]["panels"], panel_title, panel_type)
    IN  [requests |-> got.requests,
         result |->
            IF ~(Cardinality(DOMAIN layout) > 0)
            THEN [kind |-> "AssertionError"]
            ELSE IF Len(found_rows) # 1
            THEN [kind |-> "AssertionError"]
            ELSE IF Len(found_panels) # 1
            THEN [kind |-> "AssertionError"]
            ELSE [kind |-> "return", value |-> found_panels[1]]]

\* -------------------------------------------------------- compare_structure
\* PanelEntry never falling back to displayName (lines 175-177)
PanelEntry_title_only(panel) ==
    IF "title" \notin DOMAIN panel
    THEN [kind |-> "KeyError"]
    ELSE IF Truthy(panel["title"])
    THEN [kind |-> "ok", value |-> <<panel["title"]>>]
    ELSE [kind |-> "ok", value |-> <<>>]

\* lines 173-177: what one panel appends to its row's list
PanelEntry(panel) ==
    IF "title" \notin DOMAIN panel
    THEN [kind |-> "KeyError"]
    ELSE IF Truthy(panel["title"])
    THEN [kind |-> "ok", value |-> <<panel["title"]>>]
    ELSE IF "displayName" \in DOMAIN panel /\ Truthy(panel["displayName"])
    THEN [kind |-> "ok", value |-> <<panel["displayName"]>>]
    ELSE [kind |-> "ok", value |-> <<>>]

\* lines 172-177: the list of one row
RECURSIVE RowEntries(_)
RowEntries(panels) ==
    IF panels = <<>>
    THEN [kind |-> "ok", value |-> <<>>]
    ELSE LET e == PanelEntry(Head(panels))
             r == RowEntries(Tail(panels))
         IN  IF e.kind # "ok" THEN e
             ELSE IF r.kind # "ok" THEN r
             ELSE [kind |-> "ok", value |-> e.value \o r.value]

\* lines 170-177: structure_grafana after the rows, starting from acc; a later
\* row of the same title replaces the earlier one
RECURSIVE StructureGrafana(_, _)
StructureGrafana(rows, acc) ==
    IF rows = <<>>
    THEN [kind |-> "ok", value |-> acc]
    ELSE LET row == Head(rows)
         IN  IF "title" \notin DOMAIN row
             THEN [kind |-> "KeyError"]
             ELSE LET e == RowEntries(row["panels"])
                  IN  IF e.kind # "ok" THEN e
                      ELSE StructureGrafana(Tail(rows),
                                (row["title"] :> e.value) @@ acc)

\* lines 157-190; failed says what a failed pytest.check does to the run
\* ("continue" or "raise"): it decides only how the empty layout ends
compare_structure(structure, slug, body, failed) ==
    LET got    == get_dashboard(slug, body)
        layout == got.json
        first  == Cardinality(DOMAIN layout) > 0
        built  == StructureGrafana(layout["dashboard"]["rows"], <<>>)
    IN  IF ~first
        THEN [requests |-> got.requests, checks |-> <<FALSE>>,
              result |-> IF failed = "raise"
                         THEN [kind |-> "AssertionError"]
                         ELSE [kind |-> "KeyError"]]
        ELSE IF built.kind # "ok"
        THEN [requests |-> got.requests, checks |-> <<TRUE>>,
              result |-> [kind |-> "KeyError"]]
        ELSE LET final == (structure = built.value)
             IN  [requests |-> got.requests, checks |-> <<TRUE, final>>,
                  result |-> IF ~final /\ failed = "raise"
                             THEN [kind |-> "AssertionError"]
                             ELSE [kind |-> "return", value |-> None]]

\* ----------------------------------------------------------------- inputs
\* the pieces generated targets are made of
Pieces ==
    { TENDRL, <<"a">>, CLUSTER_ID, VOLUME_NAME, HOST_NAME, <<"$">>,
      <<".", "{", "a", ",", "b", "}">>, <<".", "{", "b", "}">>,
      <<",", " ">>, <<"a", "(">>, <<")">> }

\* the texts made of at most n pieces
TargetTexts(n) == {Flatten(ps) : ps \in SeqsUpTo(Pieces, n)}

\* the "target" texts of a panel of several targets
SampleTexts == { <<"tendrl", ".", "a">>, <<"b">> }

\* its "targetFull" texts
FullTexts == { <<>>, <<"tendrl", ".", "a">> }

HostNames == { <<>>, <<"a", ".", "b">> }
ClusterIds == { <<>>, <<"cluster_id">> }
VolumeNames == { <<>>, <<"a">> }

\* a panel target: "target" always, "hide" and "targetFull" optionally
TargetDicts ==
    LET hides == {<<>>} \cup {("hide" :> h) : h \in BOOLEAN}
        fulls == {<<>>} \cup {("targetFull" :> f) : f \in FullTexts}
    IN  {h @@ f @@ ("target" :> t) :
            h \in hides, f \in fulls, t \in SampleTexts}

\* panels as get_panel returns them (they have a title), of at most n targets
ChartPanels(n) ==
    {("title" :> "P") @@ ("targets" :> ts) : ts \in SeqsUpTo(TargetDicts, n)}

\* panels of one plain target whose text has at most n pieces
TextPanels(n) ==
    {("title" :> "P") @@ ("targets" :> <<("target" :> t)>>) :
        t \in TargetTexts(n)}

\* uris of search entries
SampleUris ==
    { <<"db", "/", "a">>, <<"db", "/", "b">>, <<"db", "/", "a", "/", "b">>,
      <<"db", "/">>, <<"a">> }

SearchEntries ==
    {("uri" :> u) @@ ("type" :> t) :
        u \in SampleUris, t \in {"dash-db", "dash-folder"}}

SearchResponses(n) == SeqsUpTo(SearchEntries, n)

Slugs == {"a", "b"}

\* optional "title" key of a row or a panel
OptTitle(titles) == {<<>>} \cup {("title" :> t) : t \in titles}

\* the numbers of panels of the rows of a dashboard: at most maxRows rows that
\* hold at most budget panels together
RECURSIVE Sum(_)
Sum(ns) == IF ns = <<>> THEN 0 ELSE Head(ns) + Sum(Tail(ns))

Shapes(maxRows, budget) ==
    {shape \in SeqsUpTo(0..budget, maxRows) : Sum(shape) <= budget}

\* the lists of rows of a shape
RECURSIVE RowLists(_, _, _)
RowLists(shape, rowTitles, panels) ==
    IF shape = <<>>
    THEN {<<>>}
    ELSE {<<t @@ ("panels" :> ps)>> \o rest :
            t \in OptTitle(rowTitles),
            ps \in [1..Head(shape) -> panels],
            rest \in RowLists(Tail(shape), rowTitles, panels)}

\* the dashboard bodies of a shape; the empty body {} goes with the empty shape
Layouts(shape, rowTitles, panels) ==
    {("dashboard" :> ("rows" :> rows)) :
        rows \in RowLists(shape, rowTitles, panels)}
    \cup (IF shape = <<>> THEN {<<>>} ELSE {})

\* panels with the keys get_panel reads
TypedPanels ==
    {t @@ ("type" :> ty) : t \in OptTitle({"P", "Q"}), ty \in {"graph", "stat"}}

PanelLayouts(shape) == Layouts(shape, {"R", "S"}, TypedPanels)

PanelTypes == {None, "", "graph"}

\* panels with the keys compare_structure reads
NamedPanels ==
    {t @@ d : t \in OptTitle({"", "P"}),
              d \in {<<>>} \cup {("displayName" :> n) : n \in {"", "D"}}}

NamedLayouts(shape) == Layouts(shape, {"R", "S"}, NamedPanels)

\* the structure argument: row title -> list of panel names
Structures(n) ==
    UNION {[T -> SeqsUpTo({"P", "D"}, n)] : T \in SUBSET {"R", "S"}}

\* ---------------------------------------------------------------- actions
Init ==
    /\ op = "none"
    /\ args = <<>>
    /\ requests = <<>>
    /\ response = None
    /\ result = [kind |-> "none"]
    /\ logs = <<>>
    /\ checks = <<>>

GetDashboards ==
    /\ op = "none"
    /\ \E body \in SearchResponses(MaxEntries) :
        LET r == get_dashboards(body)
        IN  /\ op' = "get_dashboards"
            /\ args' = <<>>
            /\ requests' = r.requests
            /\ response' = body
            /\ result' = r.result
            /\ logs' = <<>>
            /\ checks' = <<>>

GetDashboard ==
    /\ op = "none"
    /\ \E shape \in Shapes(MaxRows, MaxPanels) :
       \E body \in PanelLayouts(shape), slug \in Slugs :
        LET r == get_dashboard(slug, body)
        IN  /\ op' = "get_dashboard"
            /\ args' = [slug |-> slug]
            /\ requests' = r.requests
            /\ response' = body
            /\ result' = [kind |-> "return", value |-> r.json]
            /\ logs' = <<>>
            /\ checks' = <<>>

GetPanel ==
    /\ op = "none"
    /\ \E shape \in Shapes(MaxRows, MaxPanels) :
       \E body \in PanelLayouts(shape), panel_title \in {"P"},
          row_title \in {"R"}, dashboard \in Slugs, panel_type \in PanelTypes :
        LET r == get_panel(panel_title, row_title, dashboard, panel_type, body)
        IN  /\ op' = "get_panel"
            /\ args' = [panel_title |-> panel_title, row_title |-> row_title,
                        dashboard |-> dashboard, panel_type |-> panel_type]
            /\ requests' = r.requests
            /\ response' = body
            /\ result' = r.result
            /\ logs' = <<>>
            /\ checks' = <<>>

\* get_panel_chart_targets of a panel of several targets
GetPanelChartTargets ==
    /\ op = "none"
    /\ \E panel \in ChartPanels(MaxTargets), host_name \in HostNames,
          cluster_identifier \in ClusterIds, volume_name \in VolumeNames :
        \E r \in {get_panel_chart_targets(panel, host_name, cluster_identifier,
                                          volume_name)} :
            /\ op' = "get_panel_chart_targets"
            /\ args' = [panel |-> panel, host_name |-> host_name,
                        cluster_identifier |-> cluster_identifier,
                        volume_name |-> volume_name]
            /\ requests' = <<>>
            /\ response' = None
            /\ result' = [kind |-> "return", value |-> r.output]
            /\ logs' = r.logs
            /\ checks' = <<>>

\* get_panel_chart_targets of a panel of one generated target
GetPanelChartTargetsOfText ==
    /\ op = "none"
    /\ \E panel \in TextPanels(MaxPieces), host_name \in HostNames,
          cluster_identifier \in ClusterIds, volume_name \in VolumeNames :
        \E r \in {get_panel_chart_targets(panel, host_name, cluster_identifier,
                                          volume_name)} :
            /\ op' = "get_panel_chart_targets"
            /\ args' = [panel |-> panel, host_name |-> host_name,
                        cluster_identifier |-> cluster_identifier,
                        volume_name |-> volume_name]
            /\ requests' = <<>>
            /\ response' = None
            /\ result' = [kind |-> "return", value |-> r.output]
            /\ logs' = r.logs
            /\ checks' = <<>>

CompareStructure ==
    /\ op = "none"
    /\ \E shape \in Shapes(MaxRows, MaxPanels) :
       \E body \in NamedLayouts(shape),
          structure \in Structures(MaxPanels), slug \in {"a"},
          failed \in {"continue", "raise"} :
        LET r == compare_structure(structure, slug, body, failed)
        IN  /\ op' = "compare_structure"
            /\ args' = [structure |-> structure, slug |-> slug]
            /\ requests' = r.requests
            /\ response' = body
            /\ result' = r.result
            /\ logs' = <<>>
            /\ checks' = r.checks

\* the caller has the outcome; the client keeps nothing between calls
Return ==
    /\ op # "none"
    /\ op' = "none"
    /\ args' = <<>>
    /\ requests' = <<>>
    /\ response' = None
    /\ result' = [kind |-> "none"]
    /\ logs' = <<>>
    /\ checks' = <<>>

Next ==
    \/ GetDashboards
    \/ GetDashboard
    \/ GetPanel
    \/ GetPanelChartTargets
    \/ GetPanelChartTargetsOfText
    \/ CompareStructure
    \/ Return

Spec == Init /\ [][Next]_vars

SpecSearch == Init /\ [][GetDashboards \/ Return]_vars
SpecPanel == Init /\ [][GetPanel \/ Return]_vars
SpecTargets == Init /\ [][GetPanelChartTargets \/ Return]_vars
SpecTexts == Init /\ [][GetPanelChartTargetsOfText \/ Return]_vars
SpecCompare == Init /\ [][CompareStructure \/ Return]_vars

\* =================================================================== claims
IsChart == op = "get_panel_chart_targets"

\* a target with no "hide" key or whose "hide" value is false
IsVisible(target) == "hide" \notin DOMAIN target \/ target["hide"] = FALSE

\* "targetFull" when present and non-empty, otherwise "target"
Chosen(target) ==
    IF "targetFull" \in DOMAIN target /\ target["targetFull"] # <<>>
    THEN target["targetFull"]
    ELSE target["target"]

VisibleTexts(panel) ==
    LET vis == SelectSeq(panel["targets"], IsVisible)
    IN  [i \in 1..Len(vis) |-> Chosen(vis[i])]

\* the call of the state, on another panel
SameCall(panel) ==
    get_panel_chart_targets(panel, args.host_name, args.cluster_identifier,
                            args.volume_name).output

PanelOf(targets) == ("title" :> "P") @@ ("targets" :> targets)

\* the text of the state's i-th visible target after the substitutions
Substituted(i) ==
    Substitute(VisibleTexts(args.panel)[i], args.host_name,
               args.cluster_identifier, args.volume_name).text

\* the strings of the returned lists
Returned == UNION {{result.value[i][j] : j \in DOMAIN result.value[i]} :
                        i \in DOMAIN result.value}

\* ----------------------------------------------------------------------- C1
HttpOps == {"get_dashboards", "get_dashboard", "get_panel", "compare_structure"}

\* C1 as stated: every public operation, get_panel_chart_targets included,
\* performs exactly one HTTP GET per invocation.
C1_OneGetPerOperation == op # "none" => Len(requests) = 1

\* C1 amended: get_dashboards, get_dashboard, get_panel and compare_structure
\* perform exactly one HTTP GET per invocation (of "search", or of
\* "dashboards/db/<slug>"), whatever the input and the outcome;
\* get_panel_chart_targets works on the panel it is given and performs none.
C1_OneGetExceptChartTargets ==
    /\ op = "get_dashboards" => requests = << <<"search">> >>
    /\ op = "get_dashboard" => requests = << <<"dashboards/db/", args.slug>> >>
    /\ op = "get_panel" => requests = << <<"dashboards/db/", args.dashboard>> >>
    /\ op = "compare_structure" =>
            requests = << <<"dashboards/db/", args.slug>> >>
    /\ IsChart => requests = <<>>

C1_Witness ==
    /\ IsChart
    /\ requests = <<>>
    /\ Len(args.panel["targets"]) = 2
    /\ Len(result.value) = 2

\* ----------------------------------------------------------------------- C2
C2_Rows == response["dashboard"]["rows"]

C2_MatchingRows ==
    {i \in DOMAIN C2_Rows :
        "title" \in DOMAIN C2_Rows[i] /\ C2_Rows[i]["title"] = args.row_title}

\* "given" is read as the code tests it: neither None nor empty
C2_TypeGiven == args.panel_type # None /\ args.panel_type # ""

C2_MatchingPanels(panels) ==
    {j \in DOMAIN panels :
        /\ "title" \in DOMAIN panels[j]
        /\ panels[j]["title"] = args.panel_title
        /\ C2_TypeGiven => panels[j]["type"] = args.panel_type}

\* C2: get_panel returns a panel only when the fetched dashboard has exactly
\* one row titled row_title and that row has exactly one panel titled
\* panel_title (of type panel_type when one is given), and then returns that
\* panel; in every other case it fails with an assertion error.
C2_PanelOnlyWhenUnique ==
    op = "get_panel" =>
        IF /\ DOMAIN response # {}
           /\ Cardinality(C2_MatchingRows) = 1
           /\ LET i == CHOOSE i \in C2_MatchingRows : TRUE
              IN  Cardinality(C2_MatchingPanels(C2_Rows[i]["panels"])) = 1
        THEN LET i == CHOOSE i \in C2_MatchingRows : TRUE
                 panels == C2_Rows[i]["panels"]
                 j == CHOOSE j \in C2_MatchingPanels(panels) : TRUE
             IN  result = [kind |-> "return", value |-> panels[j]]
        ELSE result = [kind |-> "AssertionError"]

C2_Witness ==
    /\ op = "get_panel"
    /\ args.panel_type = "graph"
    /\ result.kind = "return"
    /\ Len(C2_Rows) = 2
    /\ Len(C2_Rows[2]["panels"]) = 2
    /\ result.value = C2_Rows[2]["panels"][2]

\* ----------------------------------------------------------------------- C3
\* C3: the returned list has one inner list per visible target, in the order of
\* panel["targets"]; a hidden target adds nothing, a visible target whose
\* segments are all dropped adds an empty inner list.
C3_OneListPerVisibleTarget ==
    IsChart =>
        LET ts == args.panel["targets"]
            alone(i) == SameCall(PanelOf(<<ts[i]>>))
        IN  /\ Len(result.value) =
                    Cardinality({i \in DOMAIN ts : IsVisible(ts[i])})
            /\ \A i \in DOMAIN ts : IsVisible(ts[i]) => Len(alone(i)) = 1
            /\ result.value =
                    Flatten([i \in DOMAIN ts |->
                                IF IsVisible(ts[i]) THEN alone(i) ELSE <<>>])

C3_Witness ==
    /\ IsChart
    /\ Len(args.panel["targets"]) = 2
    /\ ~IsVisible(args.panel["targets"][1])
    /\ IsVisible(args.panel["targets"][2])
    /\ result.value = << <<>> >>

\* ----------------------------------------------------------------------- C4
NoDollar(s) == \A i \in DOMAIN s : s[i] # "$"

C4_ArgsNoDollar ==
    /\ NoDollar(args.host_name)
    /\ NoDollar(args.cluster_identifier)
    /\ NoDollar(args.volume_name)

HoldsPlaceholder(s) == \E p \in Placeholders : Contains(s, p)

\* every "$" of s starts one of the three placeholder tokens
C4_DollarsStartPlaceholders(s) ==
    \A i \in DOMAIN s : s[i] = "$" => \E p \in Placeholders : MatchAt(s, p, i)

\* s with every placeholder token replaced at once
RECURSIVE C4_AllReplaced(_)
C4_AllReplaced(s) ==
    IF s = <<>> THEN <<>>
    ELSE IF StartsWith(s, CLUSTER_ID)
    THEN args.cluster_identifier \o C4_AllReplaced(SubSeq(s, 3, Len(s)))
    ELSE IF StartsWith(s, VOLUME_NAME)
    THEN args.volume_name \o C4_AllReplaced(SubSeq(s, 3, Len(s)))
    ELSE IF StartsWith(s, HOST_NAME)
    THEN [k \in DOMAIN args.host_name |->
            IF args.host_name[k] = "." THEN "_" ELSE args.host_name[k]]
         \o C4_AllReplaced(SubSeq(s, 3, Len(s)))
    ELSE <<Head(s)>> \o C4_AllReplaced(Tail(s))

\* C4 as stated: when the three arguments hold no "$", no returned string
\* holds any of the three placeholder tokens.
C4_NoPlaceholderLeft ==
    (IsChart /\ C4_ArgsNoDollar) => \A s \in Returned : ~HoldsPlaceholder(s)

\* C4 amended: when the three arguments hold no "$" and every "$" of a visible
\* target starts one of the three placeholder tokens, every "$cluster_id" is
\* replaced by cluster_identifier, every "$volume_name" by volume_name and
\* every "$host_name" by host_name with "." turned into "_", and no string
\* returned for that target holds a "$", so none holds a placeholder token;
\* that also holds for an argument left empty.
C4_ReplacedWhenDollarsStartPlaceholders ==
    (IsChart /\ C4_ArgsNoDollar) =>
        LET texts == VisibleTexts(args.panel)
        IN  /\ Len(result.value) = Len(texts)
            /\ \A i \in DOMAIN texts :
                C4_DollarsStartPlaceholders(texts[i]) =>
                    /\ result.value[i] = TargetOutput(C4_AllReplaced(texts[i]))
                    /\ \A j \in DOMAIN result.value[i] :
                            NoDollar(result.value[i][j])

C4_Witness ==
    /\ IsChart
    /\ args.host_name = <<"a", ".", "b">>
    /\ args.cluster_identifier = <<"cluster_id">>
    /\ args.volume_name = <<>>
    /\ VisibleTexts(args.panel) = << TENDRL \o HOST_NAME \o VOLUME_NAME >>
    /\ result.value = << << <<"tendrl", ".", "a", "_", "b">> >> >>

\* ----------------------------------------------------------------------- C5
C5_Rows == response["dashboard"]["rows"]

\* title when non-empty, else displayName when present and non-empty, else none
C5_Name(panel) ==
    IF panel["title"] # "" THEN <<panel["title"]>>
    ELSE IF "displayName" \in DOMAIN panel /\ panel["displayName"] # ""
    THEN <<panel["displayName"]>>
    ELSE <<>>

C5_Names(panels) == Flatten([j \in DOMAIN panels |-> C5_Name(panels[j])])

\* every row and every panel has a title, and the row titles differ
C5_Titled ==
    /\ DOMAIN response # {}
    /\ \A i \in DOMAIN C5_Rows :
        /\ "title" \in DOMAIN C5_Rows[i]
        /\ \A j \in DOMAIN C5_Rows[i]["panels"] :
                "title" \in DOMAIN C5_Rows[i]["panels"][j]
    /\ \A i, k \in DOMAIN C5_Rows :
            i # k => C5_Rows[i]["title"] # C5_Rows[k]["title"]

C5_Expected ==
    [t \in {C5_Rows[i]["title"] : i \in DOMAIN C5_Rows} |->
        LET i == CHOOSE i \in DOMAIN C5_Rows : C5_Rows[i]["title"] = t
        IN  C5_Names(C5_Rows[i]["panels"])]

\* C5: for a dashboard whose rows and panels are titled and whose row titles
\* are pairwise distinct, the final check of compare_structure passes exactly
\* when structure maps each row title to the list, in panel order, of the
\* row's panel names (title, else displayName, else left out).
C5_FinalCheckIffSameStructure ==
    (op = "compare_structure" /\ C5_Titled) =>
        /\ Len(checks) = 2
        /\ checks[2] <=> (args.structure = C5_Expected)

C5_Witness ==
    /\ op = "compare_structure"
    /\ C5_Titled
    /\ checks = <<TRUE, TRUE>>
    /\ Len(C5_Rows) = 2
    /\ args.structure = ("R" :> <<"D">>) @@ ("S" :> <<"P">>)
    /\ \E i \in DOMAIN C5_Rows : \E j \in DOMAIN C5_Rows[i]["panels"] :
            C5_Rows[i]["panels"][j]["title"] = ""

\* ----------------------------------------------------------------------- C6
\* the text between the first "/" of the uri and the next one
C6_SecondSegment(uri) ==
    LET i == CHOOSE i \in DOMAIN uri :
                uri[i] = "/" /\ \A k \in 1..(i - 1) : uri[k] # "/"
        later == {k \in (i + 1)..Len(uri) : uri[k] = "/"}
        j == IF later = {} THEN Len(uri) + 1
             ELSE CHOOSE k \in later : \A m \in later : k <= m
    IN  SubSeq(uri, i + 1, j - 1)

C6_DashDb == SelectSeq(response, LAMBDA e : e["type"] = "dash-db")

\* C6: get_dashboards returns, in the order of the search response, the slug
\* (second "/"-separated segment of the uri) of exactly the entries of type
\* "dash-db": as many elements as there are such entries, nothing for others.
C6_SlugsOfDashDbEntries ==
    (op = "get_dashboards" /\ result.kind = "return") =>
        /\ Len(result.value) = Len(C6_DashDb)
        /\ \A i \in DOMAIN C6_DashDb :
                /\ Contains(C6_DashDb[i]["uri"], <<"/">>)
                /\ result.value[i] = C6_SecondSegment(C6_DashDb[i]["uri"])

C6_Witness ==
    /\ op = "get_dashboards"
    /\ Len(response) = 3
    /\ response[1]["type"] = "dash-folder"
    /\ response[2] = ("uri" :> <<"db", "/", "a", "/", "b">>) @@ ("type" :> "dash-db")
    /\ result = [kind |-> "return", value |-> << <<"a">>, <<"b">> >>]

\* ----------------------------------------------------------------------- C7
C7_Logged(m) == Cardinality({k \in DOMAIN logs : logs[k].msg = m})

C7_Holding(p) ==
    LET texts == VisibleTexts(args.panel)
    IN  Cardinality({i \in DOMAIN texts : Contains(texts[i], p)})

\* C7: the "$volume_name ... no volume_name provided" message is logged for a
\* visible target exactly when the target holds "$volume_name" and volume_name
\* is empty; the "$cluster_id ..." message exactly when the target holds
\* "$cluster_id" and cluster_identifier is empty.
C7_LoggedWhenArgumentMissing ==
    IsChart =>
        /\ C7_Logged("$volume_name in target but no volume_name provided") =
                IF args.volume_name = <<>> THEN C7_Holding(VOLUME_NAME) ELSE 0
        /\ C7_Logged("$cluster_id in target but no cluster_id provided") =
                IF args.cluster_identifier = <<>> THEN C7_Holding(CLUSTER_ID)
                ELSE 0

\* ----------------------------------------------------------------------- C8
C8_Plain(s, banned) == \A i \in DOMAIN s : s[i] \notin banned

\* text is root.{opt1,...,optN}: the index of its ".{", 0 when it is not
C8_GroupAt(text) ==
    LET ks == {k \in DOMAIN text :
                /\ MatchAt(text, <<".", "{">>, k)
                /\ text[Len(text)] = "}"
                /\ C8_Plain(SubSeq(text, 1, k - 1), {"(", ")", "{", "}", " "})
                /\ C8_Plain(SubSeq(text, k + 2, Len(text) - 1),
                            {"(", ")", "{", "}", " "})}
    IN  IF ks = {} THEN 0 ELSE CHOOSE k \in ks : TRUE

\* the options between the braces: the texts between the commas
C8_Options(opts) ==
    LET commas == {k \in DOMAIN opts : opts[k] = ","}
        cut(n) == IF n = 0 THEN 0
                  ELSE IF n > Cardinality(commas) THEN Len(opts) + 1
                  ELSE CHOOSE k \in commas :
                        Cardinality({m \in commas : m < k}) = n - 1
    IN  [n \in 1..(Cardinality(commas) + 1) |->
            SubSeq(opts, cut(n - 1) + 1, cut(n) - 1)]

\* C8: a target that reads root.{opt1,...,optN} after the substitutions is
\* expanded into exactly the N strings root.opt1 ... root.optN, in option
\* order and without braces.
C8_GroupExpanded ==
    IsChart =>
        LET texts == VisibleTexts(args.panel)
        IN  \A i \in DOMAIN texts :
                LET text == Substituted(i)
                    k == C8_GroupAt(text)
                    root == SubSeq(text, 1, k - 1)
                    options == C8_Options(SubSeq(text, k + 2, Len(text) - 1))
                IN  k # 0 =>
                        result.value[i] =
                            [n \in DOMAIN options |->
                                root \o <<".">> \o options[n]]

C8_Witness ==
    /\ IsChart
    /\ args.host_name = <<"a", ".", "b">>
    /\ VisibleTexts(args.panel) =
            << TENDRL \o HOST_NAME \o <<".", "{", "a", ",", "b", "}">> >>
    /\ result.value =
            << << <<"tendrl", ".", "a", "_", "b", ".", "a">>,
                  <<"tendrl", ".", "a", "_", "b", ".", "b">> >> >>

\* ----------------------------------------------------------------------- C9
\* C9 as stated: every returned string starts with "tendrl.", with or without
\* an option group.
C9_AllStartWithTendrl ==
    IsChart => \A s \in Returned : StartsWith(s, TENDRL)

\* s is root.option for a root that stands before a ".{" of text
C9_FromGroup(s, text) ==
    \E k \in 0..(Len(s) - 1) :
        /\ s[k + 1] = "."
        /\ Contains(text, SubSeq(s, 1, k) \o <<".", "{">>)

\* C9 amended: a returned string starts with "tendrl." unless it comes from a
\* segment with a {...} option group: a segment without one is dropped when it
\* does not start with "tendrl.", a segment with one is expanded whatever it
\* starts with.
C9_TendrlUnlessOptionGroup ==
    IsChart =>
        /\ Len(result.value) = Len(VisibleTexts(args.panel))
        /\ \A i \in DOMAIN result.value : \A j \in DOMAIN result.value[i] :
                \/ StartsWith(result.value[i][j], TENDRL)
                \/ C9_FromGroup(result.value[i][j], Substituted(i))

C9_Witness ==
    /\ IsChart
    /\ VisibleTexts(args.panel) = << <<"a", ".", "{", "a", ",", "b", "}">> >>
    /\ result.value = << << <<"a", ".", "a">>, <<"a", ".", "b">> >> >>

\* ---------------------------------------------------------------------- C10
\* the panel with the "target" of every target that has a non-empty
\* "targetFull" overwritten
C10_Overwritten(panel, text) ==
    PanelOf([i \in DOMAIN panel["targets"] |->
        LET t == panel["targets"][i]
        IN  IF "targetFull" \in DOMAIN t /\ t["targetFull"] # <<>>
            THEN [t EXCEPT !["target"] = text]
            ELSE t])

\* C10: for each visible target "targetFull" is parsed when present and
\* non-empty, "target" otherwise; the "target" of a target that has a non-empty
\* "targetFull" never influences the output.
C10_TargetFullFirst ==
    IsChart =>
        LET texts == VisibleTexts(args.panel)
        IN  /\ Len(result.value) = Len(texts)
            /\ \A i \in DOMAIN texts :
                <<result.value[i]>> =
                    SameCall(PanelOf(<<("target" :> texts[i])>>))
            /\ \A text \in SampleTexts :
                result.value = SameCall(C10_Overwritten(args.panel, text))

C10_Witness ==
    /\ IsChart
    /\ args.panel["targets"] =
            << ("targetFull" :> <<"tendrl", ".", "a">>) @@ ("target" :> <<"b">>),
               ("targetFull" :> <<>>) @@ ("target" :> <<"tendrl", ".", "a">>) >>
    /\ result.value = << << <<"tendrl", ".", "a">> >>, << <<"tendrl", ".", "a">> >> >>
====
